---- MODULE Spec2Model ----
(***************************************************************************)
(* Model of the Excel Auto-Pilot orchestration pipeline (src/App.tsx, the  *)
(* variant with manual retry), its script generator (geminiService) and    *)
(* its sandboxed executor (pyodideService).                                *)
(*                                                                         *)
(* Texts are modelled by what the code tests on them: an error message is  *)
(* a record of its fixed text (tag), its prefix, the marker substrings it  *)
(* contains (toks) and the JSON payload embedded in it; a cell text is a   *)
(* sequence of characters.                                                 *)
(***************************************************************************)
EXTENDS Integers, Sequences, FiniteSets, TLC

\* ------------------------------------------------------------------------
\* Program constants
\* ------------------------------------------------------------------------
MAX_DAILY_USES == 50
maxRetries_nine == 8 + 1
maxRetries == 8

\* ------------------------------------------------------------------------
\* Bounds of the model
\* ------------------------------------------------------------------------
MaxDay == 2         \* calendar days the clock can reach (it starts at day 1)
MaxStdout == 1      \* stdout batches a generated script prints
MaxInitCalls == 3   \* calls of initPyodide besides the one of the boot effect
MaxTextLen == 4     \* tokens of a response text
MaxPeerConsumes == 2  \* consumes made by the second session of the client

\* ------------------------------------------------------------------------
\* AppStatus (src/types.ts)
\* ------------------------------------------------------------------------
IDLE == "IDLE"
BOOTING_PYTHON == "BOOTING_PYTHON"
READING_FILE == "READING_FILE"
ANALYZING_INSTRUCTION == "ANALYZING_INSTRUCTION"
GENERATING_CODE == "GENERATING_CODE"
EXECUTING_CODE == "EXECUTING_CODE"
COMPLETED == "COMPLETED"
ERROR == "ERROR"

AppStatus ==
  {IDLE, BOOTING_PYTHON, READING_FILE, ANALYZING_INSTRUCTION,
   GENERATING_CODE, EXECUTING_CODE, COMPLETED, ERROR}

isProcessing(s) ==
  s \in {BOOTING_PYTHON, READING_FILE, ANALYZING_INSTRUCTION,
         GENERATING_CODE, EXECUTING_CODE}

\* ------------------------------------------------------------------------
\* Texts
\* ------------------------------------------------------------------------
\* Marker substrings the code searches for in service error texts.
Lower(t) ==
  CASE t = "Overloaded" -> "overloaded"
    [] t = "UNAVAILABLE" -> "unavailable"
    [] t = "RESOURCE_EXHAUSTED" -> "resource_exhausted"
    [] OTHER -> t

\* s.includes(t) and s.toLowerCase().includes(t) on the markers of a text
Includes(toks, t) == t \in toks
IncludesLower(toks, t) == \E u \in toks : Lower(u) = t

NoToks == {}

\* A message text: prefix ("" / "ERR" for the generator's generic wrapper /
\* "EXEC" for the executor's wrapper), the text it is made of (tag), the
\* markers in it, and the embedded {"error": ...} payload: json is "none",
\* "malformed" (the pattern does not match or does not parse) or "ok", and
\* then innerHas says whether error.message is a non-empty string and inner
\* holds the markers of that string.
Msg(prefix, tag, toks, json, innerHas, inner) ==
  [toks |-> toks, prefix |-> prefix, tag |-> tag, json |-> json,
   innerHas |-> innerHas, inner |-> inner]

Fixed(tag) == Msg("", tag, NoToks, "none", FALSE, NoToks)
Plain(toks) == Msg("", "service", toks, "none", FALSE, NoToks)

\* errorMsg is null
NoError == Fixed("null")

\* Fixed texts of the program
MSG_LIMIT == Fixed("dailyLimitReached")          \* App.tsx:388
MSG_BOOT == Fixed("pythonLoadFailed")            \* App.tsx:344
MSG_NO_INSTRUCTION == Fixed("fillA1")            \* App.tsx:414
MSG_NO_API_KEY == Fixed("apiKeyMissing")         \* geminiService:33
MSG_EMPTY_RESPONSE == Fixed("emptyResponse")     \* geminiService:69
MSG_UNKNOWN == Fixed("unknownError")             \* geminiService:109
MSG_OVERLOAD == Fixed("serverBusy")              \* geminiService:121
MSG_QUOTA == Fixed("apiQuota")                   \* geminiService:125
MSG_NOT_INIT == Fixed("pythonNotInitialized")    \* pyodideService:169,209
MSG_NO_OUTPUT == Fixed("noOutputProduced")       \* pyodideService:238

\* The markers of the display's retry test that each fixed text contains:
\* "busy" stands for the substring meaning "is crowded" and "seigen" for the
\* substring meaning "restriction"; the overload text contains both, the
\* quota text the second; the daily-limit text contains neither.
FixedMarkers(tag) ==
  CASE tag = "serverBusy" -> {"busy", "seigen"}
    [] tag = "apiQuota" -> {"seigen"}
    [] OTHER -> {}

\* Trimming of a cell text (a sequence of characters, " " is whitespace)
RECURSIVE TrimLeft(_)
TrimLeft(s) ==
  IF s = <<>> THEN s
  ELSE IF Head(s) = " " THEN TrimLeft(Tail(s)) ELSE s

RECURSIVE TrimRight(_)
TrimRight(s) ==
  IF s = <<>> THEN s
  ELSE IF s[Len(s)] = " " THEN TrimRight(SubSeq(s, 1, Len(s) - 1)) ELSE s

trim(s) == TrimRight(TrimLeft(s))

NONE_TEXT == <<"N", "o", "n", "e">>

\* ------------------------------------------------------------------------
\* Usage tracker (App.tsx:351-378)
\* ------------------------------------------------------------------------
\* The persisted record under STORAGE_KEY: absent, or {date, count}.
NoRecord == [present |-> FALSE, date |-> 0, count |-> 0]
Record(d, c) == [present |-> TRUE, date |-> d, count |-> c]

Max(a, b) == IF a >= b THEN a ELSE b

\* The storage of the browser: "ok", "full" (getItem works, setItem throws)
\* or "denied" (getItem and setItem throw).
StorageModes == {"ok", "full", "denied"}

\* The usage load effect: the record and the remaining uses it leaves.
LoadUsage(st, day, mode) ==
  IF mode = "denied"
    THEN [stored |-> st, remaining |-> MAX_DAILY_USES]
  ELSE IF st.present /\ st.date = day
    THEN [stored |-> st, remaining |-> Max(0, MAX_DAILY_USES - st.count)]
  ELSE IF mode = "full"
    THEN [stored |-> st, remaining |-> MAX_DAILY_USES]
  ELSE [stored |-> Record(day, 0), remaining |-> MAX_DAILY_USES]

consumeUsage_noWrite(st, rem, day, mode) ==
  [thrown |-> FALSE, stored |-> st, remaining |-> rem]

\* consumeUsage: thrown is TRUE when localStorage.setItem throws, and then
\* setRemainingUses is not reached.
consumeUsage(st, rem, day, mode) ==
  LET currentUsed == MAX_DAILY_USES - rem
      newUsed == currentUsed + 1
  IN IF mode # "ok"
       THEN [thrown |-> TRUE, stored |-> st, remaining |-> rem]
       ELSE [thrown |-> FALSE, stored |-> Record(day, newUsed),
             remaining |-> Max(0, MAX_DAILY_USES - newUsed)]

\* ------------------------------------------------------------------------
\* Instruction check (App.tsx:411)
\* ------------------------------------------------------------------------
IsBlankInstruction_noPlaceholder(a1) == a1 = <<>> \/ trim(a1) = <<>>

IsBlankInstruction(a1) == a1 = <<>> \/ trim(a1) = <<>> \/ a1 = NONE_TEXT

\* ------------------------------------------------------------------------
\* Script generator: classification and final message (geminiService)
\* ------------------------------------------------------------------------
KeyMissing_never(key) == FALSE

\* if (!apiKey) (geminiService:32)
KeyMissing(key) == ~key

\* An error thrown by the service call: status, code (0 when absent),
\* hasMsg (message is a non-empty string) and the message.
SvcError(status, code, hasMsg, msg) ==
  [status |-> status, code |-> code, hasMsg |-> hasMsg, msg |-> msg]

CodeString(c) ==
  CASE c = 503 -> "503" [] c = 429 -> "429" [] c = 400 -> "400"
    [] OTHER -> "undefined"

\* Markers of JSON.stringify(error) for an error without a message
StringifyToks(e) ==
  (IF e.status # "NONE" THEN {e.status} ELSE {})
    \cup (IF e.code # 0 THEN {CodeString(e.code)} ELSE {})

\* errorMsg of the catch block (geminiService:83)
ErrorText(e) == IF e.hasMsg THEN e.msg.toks ELSE StringifyToks(e)

isRetryable_always(e) == TRUE

\* The classification of the catch block (geminiService:85-94)
isRetryable(e) ==
  \/ e.status = "UNAVAILABLE"
  \/ e.status = "RESOURCE_EXHAUSTED"
  \/ CodeString(e.code) = "503"
  \/ CodeString(e.code) = "429"
  \/ Includes(ErrorText(e), "503")
  \/ Includes(ErrorText(e), "429")
  \/ IncludesLower(ErrorText(e), "overloaded")
  \/ IncludesLower(ErrorText(e), "unavailable")
  \/ IncludesLower(ErrorText(e), "resource_exhausted")

\* The retry branch is taken (geminiService:96)
ShouldRetry(e, attempt) == isRetryable(e) /\ attempt < maxRetries

\* Unwrapping of an embedded {"error": ...} payload (geminiService:110-118,
\* App.tsx:443-452): the payload's message when there is one, else the text.
Unwrap(m) ==
  IF m.json = "ok" /\ m.innerHas
    THEN Msg("", "serviceInner", m.inner, "none", FALSE, NoToks)
    ELSE m

IsOverloadText(m) ==
  \/ IncludesLower(m.toks, "overloaded")
  \/ Includes(m.toks, "503")
  \/ Includes(m.toks, "UNAVAILABLE")

IsQuotaText(m) ==
  \/ Includes(m.toks, "429")
  \/ Includes(m.toks, "RESOURCE_EXHAUSTED")

\* The message generate raises with for its last error (geminiService:109-128)
FinalMessage(e) ==
  LET finalMessage == Unwrap(IF e.hasMsg THEN e.msg ELSE MSG_UNKNOWN)
  IN IF IsOverloadText(finalMessage) THEN MSG_OVERLOAD
     ELSE IF IsQuotaText(finalMessage) THEN MSG_QUOTA
     ELSE [finalMessage EXCEPT !.prefix = "ERR"]

\* displayError of the orchestrator's catch block (App.tsx:443-452)
DisplayError(m) == Unwrap(m)

\* The display's test for offering the manual retry (App.tsx:489-495)
isRetryableError(m) ==
  /\ m # NoError
  /\ \/ "busy" \in FixedMarkers(m.tag)
     \/ "seigen" \in FixedMarkers(m.tag)
     \/ Includes(m.toks, "503")
     \/ Includes(m.toks, "429")
     \/ Includes(m.toks, "Rpc")
     \/ Includes(m.toks, "xhr")
     \/ Includes(m.toks, "tsushinError")

\* ------------------------------------------------------------------------
\* Response parsing (geminiService:68-75)
\* ------------------------------------------------------------------------
\* A response text is a sequence of tokens: the opening fence tagged python
\* (three backquotes and the word), the bare fence (three backquotes), the
\* whitespace " ", and other characters.
FENCE_PY == "FENCE_PY"
FENCE == "FENCE"

RECURSIVE IndexFrom(_, _, _)
\* first index >= i of s holding a token of set T, 0 when there is none
IndexFrom(s, i, T) ==
  IF i > Len(s) THEN 0
  ELSE IF s[i] \in T THEN i ELSE IndexFrom(s, i + 1, T)

RECURSIVE Without(_, _)
Without(s, T) ==
  IF s = <<>> THEN s
  ELSE IF Head(s) \in T THEN Without(Tail(s), T)
  ELSE <<Head(s)>> \o Without(Tail(s), T)

ExtractCode_untrimmed(text) ==
  LET open == IndexFrom(text, 1, {FENCE_PY})
      close == IF open = 0 THEN 0
               ELSE IndexFrom(text, open + 1, {FENCE, FENCE_PY})
      group == IF close = 0 THEN <<>> ELSE SubSeq(text, open + 1, close - 1)
  IN IF close # 0 /\ group # <<>>
       THEN group
       ELSE Without(Without(text, {FENCE_PY}), {FENCE})

\* text.match of the lazy fence pattern: the closing fence is the first
\* three backquotes after the opening fence, also when they start another
\* opening fence.
ExtractCode(text) ==
  LET open == IndexFrom(text, 1, {FENCE_PY})
      close == IF open = 0 THEN 0
               ELSE IndexFrom(text, open + 1, {FENCE, FENCE_PY})
      group == IF close = 0 THEN <<>> ELSE SubSeq(text, open + 1, close - 1)
  IN IF close # 0 /\ group # <<>>
       THEN trim(group)
       ELSE trim(Without(Without(text, {FENCE_PY}), {FENCE}))

\* ------------------------------------------------------------------------
\* Inputs
\* ------------------------------------------------------------------------
\* An uploaded spreadsheet: its name, whether cell A1 holds a value and its
\* text, its header row, and whether the readers fail on the workbook.
File(name, hasA1, cell, columns, corrupt) ==
  [name |-> name, hasA1 |-> hasA1, cell |-> cell, columns |-> columns,
   corrupt |-> corrupt]

NoFile == File("null", FALSE, <<>>, <<>>, FALSE)

Files ==
  { File("double.xlsx", TRUE, <<" ", "D", " ">>, <<"A", "B", "C">>, FALSE),
    File("empty.xlsx", FALSE, <<>>, <<"A">>, FALSE),
    File("spaces.xlsx", TRUE, <<" ", " ">>, <<"A">>, FALSE),
    File("none.xlsx", TRUE, NONE_TEXT, <<"A">>, FALSE),
    File("broken.xlsx", TRUE, <<"D">>, <<"A">>, TRUE) }

\* Errors of the generation service call
SvcErrors ==
  { SvcError("UNAVAILABLE", 0, TRUE, Plain({})),
    SvcError("RESOURCE_EXHAUSTED", 429, FALSE, Plain({})),
    SvcError("NONE", 0, TRUE, Plain({"unavailable"})),
    SvcError("NONE", 0, TRUE, Plain({"429"})),
    SvcError("NONE", 0, TRUE,
             Msg("", "service", {"503", "UNAVAILABLE", "overloaded"},
                 "ok", TRUE, {"overloaded"})),
    SvcError("NONE", 0, TRUE,
             Msg("", "service", {"429", "RESOURCE_EXHAUSTED"},
                 "ok", TRUE, {})),
    SvcError("INVALID_ARGUMENT", 400, TRUE, Plain({})),
    SvcError("NONE", 0, TRUE, Plain({"Rpc", "xhr"})) }

NoSvcError == SvcError("NONE", 0, FALSE, Fixed("undefined"))

\* The Error object thrown for an empty response text (geminiService:69)
EmptyResponseError == SvcError("NONE", 0, TRUE, MSG_EMPTY_RESPONSE)

\* Response texts of the generation service (non-empty)
Responses ==
  { <<FENCE_PY, " ", "x", " ", FENCE>>,
    <<"x", FENCE, " ">> }

\* Every response text of at most MaxTextLen tokens
Tokens == {FENCE_PY, FENCE, " ", "x"}
ParseResponses == UNION {[1..n -> Tokens] : n \in 1..MaxTextLen}

\* Messages of the errors a generated script raises
ScriptErrors == { Plain({}), Plain({"429"}) }

\* What a generated script does: whether it writes output.xlsx, whether it
\* raises (and with what), how many stdout batches it prints.
ScriptRuns ==
  [writes : BOOLEAN, raises : BOOLEAN, err : ScriptErrors,
   prints : 0..MaxStdout]

\* What the user does in a session: the accepted uploads and the clicks on
\* the retry button, in order (a run is started by each)
UserSessions ==
  { <<"upload", "upload">>,
    <<"upload", "retry">> }

\* Persisted records a session can find at startup
InitCounts == {0, MAX_DAILY_USES - 1, MAX_DAILY_USES}
InitStored == {NoRecord} \cup {Record(d, c) : d \in {0, 1}, c \in InitCounts}

\* ------------------------------------------------------------------------
\* State
\* ------------------------------------------------------------------------
VARIABLES
  today,                \* the calendar day of new Date().toDateString()
  storageMode,          \* behaviour of localStorage in this session
  apiKey,               \* process.env.API_KEY is set
  peer,                 \* usage state of a second session of the client
  gestures,             \* what the user still does in this session
  stored,               \* localStorage[STORAGE_KEY]
  status, logs, inputFile, a1Instruction, generatedCode, outputBlob,
  errorMsg, remainingUses,                       \* React state of App
  pyodideInstance,      \* window.pyodideInstance is set
  pyodideReadyPromise,  \* "null", "pending", "resolved", "rejected"
  bootstrap,            \* history of the calls of initPyodide
  fs,                   \* the sandbox filesystem
  pc,                   \* where the running async function is suspended
  file,                 \* startTransformation's parameter
  a1,                   \* startTransformation's local a1
  attempt, lastError,   \* generateExcelEditCode's locals
  backoffMs,            \* the delay of the pending backoff timer, in ticks
  run,                  \* history of the current pipeline run
  runs,                 \* number of runs started in this session
  counted,              \* units counted so far for the current day
  escaped               \* an exception left a handler uncaught

vars ==
  <<today, storageMode, apiKey, peer, gestures, stored, status, logs, inputFile,
    a1Instruction, generatedCode, outputBlob, errorMsg, remainingUses,
    pyodideInstance, pyodideReadyPromise, bootstrap, fs, pc, file, a1,
    attempt,
    lastError, backoffMs, run, runs, counted, escaped>>

envVars == <<storageMode, apiKey, peer>>
pyVars == <<pyodideInstance, pyodideReadyPromise, bootstrap>>
genVars == <<attempt, lastError, backoffMs>>

NoBlob == [run |-> 0]
NoText == <<>>

EmptyFs == [input_temp |-> NoFile, input |-> NoFile, output |-> NoBlob]

Entry(type, tag, n, msg) == [tag |-> tag, msg |-> msg, type |-> type, n |-> n]
Info(tag) == Entry("info", tag, 0, NoError)
Success(tag) == Entry("success", tag, 0, NoError)
Warning_asError(tag, n) == Entry("error", tag, n, NoError)
Warning(tag, n) == Entry("warning", tag, n, NoError)
ErrorEntry(tag, msg) == Entry("error", tag, 0, msg)

addLog_newestFirst(l, e) == <<e>> \o l

\* addLog (App.tsx:330-332)
addLog(l, e) == Append(l, e)

NoRun ==
  [a1 |-> NoText, id |-> 0, kind |-> "none", read |-> FALSE, readCalls |-> 0,
   consumes |-> 0, genCalls |-> 0, requests |-> 0, failed |-> 0,
   notices |-> <<>>, execCalls |-> 0, script |-> "none",
   storedAtStart |-> NoRecord, remainingAtStart |-> 0, logsAtStart |-> 0,
   passedReading |-> FALSE, raised |-> NoError, response |-> NoText]

NewRun(kind) ==
  [NoRun EXCEPT !.id = runs + 1, !.kind = kind, !.storedAtStart = stored,
                !.remainingAtStart = remainingUses, !.logsAtStart = Len(logs)]

\* History of initPyodide: runs of the loader and of the installer, calls,
\* callers that were handed the promise in flight (joined) or the published
\* instance (reused), the bootstrap that published the instance, the
\* bootstraps whose runtime the callers were handed, and the callers that
\* were handed the promise of a bootstrap that had already failed.
NoBootstrap ==
  [loads |-> 0, installs |-> 0, calls |-> 0, joined |-> 0, reused |-> 0,
   published |-> 0, got |-> {}, afterFailure |-> 0]

BootstrapStarts_always(promise) == TRUE

BootstrapStarts_afterFailure(promise) == promise \in {"null", "rejected"}

\* if (!pyodideReadyPromise) (pyodideService:145)
BootstrapStarts(promise) == promise = "null"

\* initPyodide up to its return (pyodideService:142-163): the promise it
\* leaves in pyodideReadyPromise, the history, and whether this call started
\* a bootstrap.
initPyodide(inst, promise, b) ==
  IF inst
    THEN [promise |-> promise, started |-> FALSE,
          boot |-> [b EXCEPT !.calls = @ + 1, !.reused = @ + 1,
                             !.got = @ \cup {b.published}]]
  ELSE IF BootstrapStarts(promise)
    THEN [promise |-> "pending", started |-> TRUE,
          boot |-> [b EXCEPT !.calls = @ + 1, !.loads = @ + 1,
                             !.got = @ \cup {b.loads + 1}]]
  ELSE [promise |-> promise, started |-> FALSE,
        boot |-> [b EXCEPT !.calls = @ + 1, !.joined = @ + 1,
                           !.got = @ \cup {b.loads},
                           !.afterFailure =
                             IF promise = "rejected" THEN @ + 1 ELSE @]]

\* A second session of the same client (another tab on the same storage),
\* reduced to its usage state: its remainingUses and the consumes it made
NoPeer == [remaining |-> MAX_DAILY_USES, consumes |-> 0, mounted |-> FALSE]

\* The state of a session before its effects have run
Fresh ==
  /\ status = IDLE
  /\ peer = NoPeer
  /\ logs = <<>>
  /\ inputFile = NoFile
  /\ a1Instruction = NoText
  /\ generatedCode = NoText
  /\ outputBlob = NoBlob
  /\ errorMsg = NoError
  /\ remainingUses = MAX_DAILY_USES
  /\ pyodideInstance = FALSE
  /\ pyodideReadyPromise = "null"
  /\ bootstrap = NoBootstrap
  /\ fs = EmptyFs
  /\ pc = "init"
  /\ file = NoFile
  /\ a1 = NoText
  /\ attempt = 0
  /\ lastError = NoSvcError
  /\ backoffMs = 0
  /\ run = NoRun
  /\ runs = 0
  /\ counted = (IF stored.present /\ stored.date = today
                  THEN stored.count ELSE 0)
  /\ escaped = FALSE

Init ==
  /\ today = 1
  /\ storageMode \in StorageModes
  /\ apiKey \in BOOLEAN
  /\ gestures \in UserSessions
  /\ stored \in InitStored
  /\ Fresh

\* ------------------------------------------------------------------------
\* Startup: the boot effect and the usage load effect (App.tsx:334-370),
\* initPyodide (pyodideService:142-163)
\* ------------------------------------------------------------------------
\* Both effects run at mount: boot() runs up to its await of initPyodide,
\* which starts the bootstrap and logs its first line, then the usage record
\* is loaded.
Mount ==
  /\ pc = "init"
  /\ status' = BOOTING_PYTHON
  /\ LET r == initPyodide(pyodideInstance, pyodideReadyPromise, bootstrap)
         l == addLog(logs, Info("bootStart"))
     IN /\ pyodideReadyPromise' = r.promise
        /\ bootstrap' = r.boot
        /\ logs' = IF r.started THEN addLog(l, Info("pyLoading")) ELSE l
  /\ LET u == LoadUsage(stored, today, storageMode)
     IN /\ stored' = u.stored
        /\ remainingUses' = u.remaining
  /\ pc' = "loadPyodide"
  /\ UNCHANGED <<today, envVars, gestures, inputFile, a1Instruction,
                 generatedCode, outputBlob, errorMsg, pyodideInstance, fs,
                 file, a1, genVars, run, runs, counted, escaped>>

\* window.loadPyodide resolved: the package installation starts
BootLoaded ==
  /\ pc = "loadPyodide"
  /\ logs' = addLog(logs, Info("pyInstalling"))
  /\ bootstrap' = [bootstrap EXCEPT !.installs = @ + 1]
  /\ pc' = "install"
  /\ UNCHANGED <<today, envVars, gestures, stored, status, inputFile,
                 a1Instruction, generatedCode, outputBlob, errorMsg,
                 remainingUses, pyodideInstance, pyodideReadyPromise, fs,
                 file, a1, genVars, run, runs, counted, escaped>>

\* micropip.install resolved: the instance is published and boot() finishes
BootInstalled ==
  /\ pc = "install"
  /\ pyodideInstance' = TRUE
  /\ pyodideReadyPromise' = "resolved"
  /\ bootstrap' = [bootstrap EXCEPT !.published = bootstrap.loads]
  /\ status' = IDLE
  /\ logs' = addLog(addLog(logs, Info("pyReady")), Success("systemReady"))
  /\ pc' = "idle"
  /\ UNCHANGED <<today, envVars, gestures, stored, inputFile, a1Instruction,
                 generatedCode, outputBlob, errorMsg, remainingUses, fs, file,
                 a1, genVars, run, runs, counted, escaped>>

\* the loader or the installer rejected: catch block of boot()
BootFailed ==
  /\ pc \in {"loadPyodide", "install"}
  /\ pyodideReadyPromise' = "rejected"
  /\ status' = ERROR
  /\ errorMsg' = MSG_BOOT
  /\ logs' = addLog(logs, ErrorEntry("fatal", Plain({})))
  /\ pc' = "idle"
  /\ UNCHANGED <<today, envVars, gestures, stored, inputFile, a1Instruction,
                 generatedCode, outputBlob, remainingUses, pyodideInstance,
                 bootstrap, fs, file, a1, genVars, run, runs, counted,
                 escaped>>

\* Another caller calls initPyodide, with a log callback of its own
InitPyodideCall ==
  /\ pc # "init"
  /\ bootstrap.calls <= MaxInitCalls
  /\ LET r == initPyodide(pyodideInstance, pyodideReadyPromise, bootstrap)
     IN /\ pyodideReadyPromise' = r.promise
        /\ bootstrap' = r.boot
  /\ UNCHANGED <<today, envVars, gestures, stored, status, logs, inputFile,
                 a1Instruction, generatedCode, outputBlob, errorMsg,
                 remainingUses, pyodideInstance, fs, pc, file, a1, genVars,
                 run, runs, counted, escaped>>

\* The second session starts: its usage load effect (App.tsx:351-370)
PeerMount ==
  /\ ~peer.mounted
  /\ LET u == LoadUsage(stored, today, storageMode)
     IN /\ stored' = u.stored
        /\ peer' = [peer EXCEPT !.mounted = TRUE, !.remaining = u.remaining]
  /\ UNCHANGED <<today, storageMode, apiKey, gestures, status, logs,
                 inputFile, a1Instruction, generatedCode, outputBlob,
                 errorMsg, remainingUses, pyVars, fs, pc, file, a1, genVars,
                 run, runs, counted, escaped>>

\* A run of the second session, accepted by its processFile, reaches
\* consumeUsage (App.tsx:387, 422, 372-378)
PeerConsume ==
  /\ peer.mounted
  /\ peer.remaining > 0
  /\ peer.consumes < MaxPeerConsumes
  /\ LET u == consumeUsage(stored, peer.remaining, today, storageMode)
     IN /\ stored' = u.stored
        /\ peer' = [peer EXCEPT !.remaining = u.remaining,
                                !.consumes = @ + 1]
        /\ counted' = IF u.thrown THEN counted ELSE counted + 1
  /\ UNCHANGED <<today, storageMode, apiKey, gestures, status, logs,
                 inputFile, a1Instruction, generatedCode, outputBlob,
                 errorMsg, remainingUses, pyVars, fs, pc, file, a1, genVars,
                 run, runs, escaped>>

\* The clock passes midnight
NextDay ==
  /\ today < MaxDay
  /\ today' = today + 1
  /\ counted' = 0
  /\ UNCHANGED <<envVars, gestures, stored, status, logs, inputFile,
                 a1Instruction, generatedCode, outputBlob, errorMsg,
                 remainingUses, pyVars, fs, pc, file, a1, genVars, run, runs,
                 escaped>>

\* ------------------------------------------------------------------------
\* Spreadsheet reader (pyodideService:165-201)
\* ------------------------------------------------------------------------
ReadResult_noCatch(f) ==
  [a1 |-> IF f.hasA1 THEN f.cell ELSE NoText, columns |-> f.columns,
   error |-> FALSE]

\* The JSON the reading script returns: a failure inside the script's try
\* block gives an empty a1, no columns and the error text.
ReadResult(f) ==
  IF f.corrupt
    THEN [a1 |-> NoText, columns |-> <<>>, error |-> TRUE]
    ELSE [a1 |-> IF f.hasA1 THEN f.cell ELSE NoText,
          columns |-> f.columns, error |-> FALSE]

\* The label shown when no instruction was found (App.tsx:413)
NO_INSTRUCTION_LABEL == <<"(", "n", "o", "n", "e", ")">>

\* ------------------------------------------------------------------------
\* Orchestrator (App.tsx:386-465)
\* ------------------------------------------------------------------------
TryCovers_consumeOutside(stage) ==
  stage \in {"reader", "generate", "execute"}

TryCovers_executeOutside(stage) ==
  stage \in {"reader", "consume", "generate"}

\* The stages whose calls are inside the try block of startTransformation
TryCovers(stage) == stage \in {"reader", "consume", "generate", "execute"}

\* A stage throws m after the run has set status st and the log l:
\* the catch block (App.tsx:439-456), or the exception leaves the function.
Throw(stage, m, st, l) ==
  IF TryCovers(stage)
    THEN /\ status' = ERROR
         /\ errorMsg' = DisplayError(m)
         /\ logs' = addLog(l, ErrorEntry("error", DisplayError(m)))
         /\ escaped' = escaped
    ELSE /\ status' = st
         /\ errorMsg' = NoError
         /\ logs' = l
         /\ escaped' = TRUE

RuntimeMissing_never(inst) == FALSE

\* if (!pyodide) at the entry of the reader and of the executor
\* (pyodideService:168-169, 208-209)
RuntimeMissing(inst) == ~inst

\* startTransformation up to its first suspension: it sets ReadingFile and
\* calls the reader, which throws when the runtime is missing and else
\* writes the upload to the sandbox and runs the reading script.
StartTransformation(f, l, kind) ==
  LET l1 == addLog(l, Info("parseStart"))
      r == [NewRun(kind) EXCEPT !.readCalls = 1, !.passedReading = TRUE]
  IN /\ file' = f
     /\ runs' = runs + 1
     /\ IF RuntimeMissing(pyodideInstance)
          THEN /\ Throw("reader", MSG_NOT_INIT, READING_FILE, l1)
               /\ run' = [r EXCEPT !.raised = MSG_NOT_INIT]
               /\ pc' = "idle"
               /\ fs' = fs
          ELSE /\ status' = READING_FILE
               /\ logs' = l1
               /\ errorMsg' = NoError
               /\ escaped' = escaped
               /\ run' = r
               /\ pc' = "reading"
               /\ fs' = [fs EXCEPT !.input_temp = f]

InputEnabled_always(s) == TRUE

\* The upload control takes a file only while no stage is being processed
\* (App.tsx:551-553)
InputEnabled(s) == ~isProcessing(s)

UploadRefused_resets(f) ==
  /\ pc # "init"
  /\ InputEnabled(status)
  /\ remainingUses <= 0
  /\ errorMsg' = MSG_LIMIT
  /\ status' = ERROR
  /\ outputBlob' = NoBlob
  /\ generatedCode' = NoText
  /\ run' = [NoRun EXCEPT !.kind = "refused", !.storedAtStart = stored,
                          !.remainingAtStart = remainingUses,
                          !.logsAtStart = Len(logs)]
  /\ UNCHANGED <<today, envVars, gestures, stored, logs, inputFile,
                 a1Instruction, remainingUses, pyVars, fs, pc, file, a1,
                 genVars, runs, counted, escaped>>

\* processFile refuses the upload (App.tsx:387-391)
UploadRefused(f) ==
  /\ pc # "init"
  /\ InputEnabled(status)
  /\ remainingUses <= 0
  /\ errorMsg' = MSG_LIMIT
  /\ status' = ERROR
  /\ run' = [NoRun EXCEPT !.kind = "refused", !.storedAtStart = stored,
                          !.remainingAtStart = remainingUses,
                          !.logsAtStart = Len(logs)]
  /\ UNCHANGED <<today, envVars, gestures, stored, logs, inputFile,
                 a1Instruction, generatedCode, outputBlob, remainingUses,
                 pyVars, fs, pc, file, a1, genVars, runs, counted, escaped>>

\* processFile accepts the upload and starts the run (App.tsx:393-401)
UploadAccepted(f) ==
  /\ pc # "init"
  /\ InputEnabled(status)
  /\ gestures # <<>> /\ Head(gestures) = "upload"
  /\ gestures' = Tail(gestures)
  /\ remainingUses > 0
  /\ inputFile' = f
  /\ outputBlob' = NoBlob
  /\ generatedCode' = NoText
  /\ a1Instruction' = NoText
  /\ StartTransformation(f, logs, "upload")
  /\ UNCHANGED <<today, envVars, stored, remainingUses, pyVars, a1, genVars,
                 counted>>

\* The rest of the try block once the reader has returned the text v:
\* instruction check, usage consumption and the call of the generator up to
\* its first request (App.tsx:411-424, geminiService:31-59)
AfterRead(v, l, r0) ==
  IF IsBlankInstruction(v)
    THEN /\ a1Instruction' = NO_INSTRUCTION_LABEL
         /\ Throw("reader", MSG_NO_INSTRUCTION, READING_FILE,
                  addLog(l, Warning("noInstruction", 0)))
         /\ run' = [r0 EXCEPT !.raised = MSG_NO_INSTRUCTION]
         /\ pc' = "idle"
         /\ UNCHANGED <<stored, remainingUses, counted, genVars>>
    ELSE LET l1 == addLog(addLog(l, Success("instructionFound")),
                          Info("sending"))
             u == consumeUsage(stored, remainingUses, today, storageMode)
             r1 == [r0 EXCEPT !.consumes = 1]
             r2 == [r1 EXCEPT !.genCalls = 1]
         IN /\ a1Instruction' = v
            /\ stored' = u.stored
            /\ remainingUses' = u.remaining
            /\ counted' = IF u.thrown THEN counted ELSE counted + 1
            /\ IF u.thrown
                 THEN /\ Throw("consume", Plain({}), GENERATING_CODE, l1)
                      /\ run' = [r1 EXCEPT !.raised = Plain({})]
                      /\ pc' = "idle"
                      /\ UNCHANGED genVars
               ELSE IF KeyMissing(apiKey)
                 THEN /\ Throw("generate", MSG_NO_API_KEY, GENERATING_CODE,
                               l1)
                      /\ run' = [r2 EXCEPT !.raised = MSG_NO_API_KEY]
                      /\ pc' = "idle"
                      /\ UNCHANGED genVars
               ELSE /\ status' = GENERATING_CODE
                    /\ logs' = l1
                    /\ attempt' = 0
                    /\ lastError' = NoSvcError
                    /\ backoffMs' = 0
                    /\ run' = [r2 EXCEPT !.requests = 1]
                    /\ pc' = "request"
                    /\ UNCHANGED <<errorMsg, escaped>>

\* A retry that resumes after the reader, with the instruction it stored
RetrySkipsReader ==
  /\ pc = "idle"
  /\ status = ERROR
  /\ isRetryableError(errorMsg)
  /\ inputFile # NoFile
  /\ gestures # <<>> /\ Head(gestures) = "retry"
  /\ gestures' = Tail(gestures)
  /\ file' = inputFile
  /\ runs' = runs + 1
  /\ AfterRead(a1Instruction, addLog(logs, Info("retrying")),
               NewRun("retry"))
  /\ UNCHANGED <<today, envVars, inputFile, generatedCode, outputBlob,
                 pyVars, fs, a1>>

\* A retry that runs the stored script again
RetryReexecutes ==
  /\ pc = "idle"
  /\ status = ERROR
  /\ isRetryableError(errorMsg)
  /\ inputFile # NoFile
  /\ gestures # <<>> /\ Head(gestures) = "retry"
  /\ gestures' = Tail(gestures)
  /\ file' = inputFile
  /\ runs' = runs + 1
  /\ status' = EXECUTING_CODE
  /\ errorMsg' = NoError
  /\ logs' = addLog(logs, Info("retrying"))
  /\ fs' = [fs EXCEPT !.input = inputFile, !.output = NoBlob]
  /\ run' = [NewRun("retry") EXCEPT !.execCalls = 1]
  /\ pc' = "exec"
  /\ UNCHANGED <<today, envVars, stored, inputFile, a1Instruction,
                 generatedCode, outputBlob, remainingUses, pyVars, a1,
                 genVars, counted, escaped>>

\* handleRetry (App.tsx:459-465); the button is rendered at App.tsx:585-598
Retry ==
  /\ pc = "idle"
  /\ status = ERROR
  /\ isRetryableError(errorMsg)
  /\ inputFile # NoFile
  /\ gestures # <<>> /\ Head(gestures) = "retry"
  /\ gestures' = Tail(gestures)
  /\ StartTransformation(inputFile, addLog(logs, Info("retrying")), "retry")
  /\ UNCHANGED <<today, envVars, stored, inputFile, a1Instruction,
                 generatedCode, outputBlob, remainingUses, pyVars, a1,
                 genVars, counted>>

\* The reading script failed outside its own try block, or its result did
\* not parse: extractA1AndColumns rejects.
ReadThrows ==
  /\ pc = "reading"
  /\ Throw("reader", Plain({}), READING_FILE, logs)
  /\ run' = [run EXCEPT !.raised = Plain({})]
  /\ pc' = "idle"
  /\ UNCHANGED <<today, envVars, gestures, stored, inputFile, a1Instruction,
                 generatedCode, outputBlob, remainingUses, pyVars, fs, file,
                 a1, genVars, runs, counted>>

\* The reader returned (App.tsx:409)
ReadDone ==
  /\ pc = "reading"
  /\ LET res == ReadResult(file)
     IN /\ a1' = res.a1
        /\ AfterRead(res.a1, logs, [run EXCEPT !.read = TRUE, !.a1 = res.a1])
  /\ UNCHANGED <<today, envVars, gestures, inputFile, generatedCode,
                 outputBlob, pyVars, fs, file, runs>>

UnlinkOutput_skipped(f) == f

\* pyodide.FS.unlink("output.xlsx") with its error ignored
\* (pyodideService:224)
UnlinkOutput(f) == [f EXCEPT !.output = NoBlob]

\* The service returned a non-empty text: the script is extracted and the
\* executor is called up to the start of the script
\* (geminiService:68-75, App.tsx:427-433, pyodideService:208-226)
RequestOk(text) ==
  /\ pc = "request"
  /\ generatedCode' = ExtractCode(text)
  /\ LET l1 == addLog(addLog(logs, Success("codeGenerated")),
                      Info("executing"))
         r == [run EXCEPT !.execCalls = 1, !.response = text]
     IN IF RuntimeMissing(pyodideInstance)
          THEN /\ Throw("execute", MSG_NOT_INIT, EXECUTING_CODE, l1)
               /\ fs' = fs
               /\ run' = [r EXCEPT !.raised = MSG_NOT_INIT]
               /\ pc' = "idle"
          ELSE /\ status' = EXECUTING_CODE
               /\ logs' = addLog(addLog(l1, Info("prepFile")),
                                 Info("runScript"))
               /\ fs' = UnlinkOutput([fs EXCEPT !.input = file])
               /\ run' = r
               /\ pc' = "exec"
               /\ UNCHANGED <<errorMsg, escaped>>
  /\ UNCHANGED <<today, envVars, gestures, stored, inputFile, a1Instruction,
                 outputBlob, remainingUses, pyVars, file, a1, genVars, runs,
                 counted>>

\* Delays are counted in ticks of a ten-thousandth of a millisecond, the
\* unit in which 1.8^n * 1500 ms is a whole number for every n up to 7.
TicksPerMs == 100 * 100

RECURSIVE ScaledPow_doubling(_)
ScaledPow_doubling(n) ==
  IF n = 0 THEN 1500 * TicksPerMs ELSE 2 * ScaledPow_doubling(n - 1)

RECURSIVE ScaledPow(_)
\* Math.pow(1.8, attempt) * 1500 (geminiService:98), in ticks: each attempt
\* multiplies the delay by 9/5, rounded down
ScaledPow(n) ==
  IF n = 0 THEN 1500 * TicksPerMs
  ELSE LET d == ScaledPow(n - 1)
       IN d + 4 * (d \div 5) + (4 * (d % 5)) \div 5

\* Math.random() * 1000 (geminiService:98), in ticks: the least value and
\* the greatest value below 1000 ms
Jitters == {0, 1000 * TicksPerMs - 1}

NoticeNumber_zeroBased(n) == n

\* The attempt number passed to onRetry (geminiService:99)
NoticeNumber(n) == n + 1

\* The condition of the retry loop (geminiService:57)
LoopContinues(n) == n <= maxRetries

\* The catch block of the retry loop for error e (geminiService:77-105) and,
\* when the loop ends, the final error handling (geminiService:108-128)
GenFail(e) ==
  /\ lastError' = e
  /\ attempt' = attempt
  /\ IF ShouldRetry(e, attempt)
       THEN /\ logs' = addLog(logs,
                              Warning("retryNotice", NoticeNumber(attempt)))
            /\ run' = [run EXCEPT !.failed = @ + 1,
                         !.notices = Append(@, NoticeNumber(attempt))]
            /\ \E j \in Jitters : backoffMs' = ScaledPow(attempt) + j
            /\ pc' = "sleep"
            /\ UNCHANGED <<status, errorMsg, escaped>>
       ELSE /\ Throw("generate", FinalMessage(e), GENERATING_CODE, logs)
            /\ run' = [run EXCEPT !.failed = @ + 1,
                                  !.raised = FinalMessage(e)]
            /\ pc' = "idle"
            /\ UNCHANGED backoffMs
  /\ UNCHANGED <<today, envVars, gestures, stored, inputFile, a1Instruction,
                 generatedCode, outputBlob, remainingUses, pyVars, fs, file,
                 a1, runs, counted>>

\* The service call threw one of the errors of E
RequestFails(E) ==
  \E e \in E :
    /\ pc = "request"
    /\ GenFail(e)

RequestEmpty_accepted == RequestOk(<<>>)

\* The service returned no text (geminiService:69)
RequestEmpty ==
  /\ pc = "request"
  /\ GenFail(EmptyResponseError)

\* The backoff sleep ended (geminiService:100-101): the loop increments the
\* attempt and, its condition holding, sends the next request; else it ends
\* and the final error handling raises.
Wake ==
  /\ pc = "sleep"
  /\ attempt' = attempt + 1
  /\ backoffMs' = 0
  /\ IF LoopContinues(attempt + 1)
       THEN /\ run' = [run EXCEPT !.requests = @ + 1]
            /\ pc' = "request"
            /\ UNCHANGED <<status, errorMsg, logs, escaped>>
       ELSE /\ Throw("generate", FinalMessage(lastError), GENERATING_CODE,
                     logs)
            /\ run' = [run EXCEPT !.raised = FinalMessage(lastError)]
            /\ pc' = "idle"
  /\ UNCHANGED <<today, envVars, gestures, stored, inputFile, a1Instruction,
                 generatedCode, outputBlob, remainingUses, pyVars, fs, file,
                 a1, lastError, runs, counted>>

ScriptRaised_swallowed(sr) == FALSE

\* runPythonAsync rejected: the catch block wraps and rethrows
\* (pyodideService:227-229)
ScriptRaised(sr) == sr.raises

RECURSIVE StdoutLogs(_, _)
\* the log after the script's stdout batches (pyodideService:217-219)
StdoutLogs(l, n) ==
  IF n = 0 THEN l
  ELSE addLog(StdoutLogs(l, n - 1), Entry("info", "pyStdout", n, NoError))

\* The generated script ended: the rest of runPythonTransformation and of
\* startTransformation (pyodideService:226-239, App.tsx:435-437)
ScriptDone(sr) ==
  /\ pc = "exec"
  /\ LET l1 == StdoutLogs(logs, sr.prints)
         fs1 == IF sr.writes THEN [fs EXCEPT !.output = [run |-> run.id]]
                ELSE fs
         kind == IF sr.raises THEN "raised"
                 ELSE IF sr.writes THEN "wrote" ELSE "silent"
         r == [run EXCEPT !.script = kind]
     IN /\ fs' = fs1
        /\ IF ScriptRaised(sr)
             THEN /\ Throw("execute", [sr.err EXCEPT !.prefix = "EXEC"],
                           EXECUTING_CODE, l1)
                  /\ run' = [r EXCEPT !.raised =
                                        [sr.err EXCEPT !.prefix = "EXEC"]]
                  /\ UNCHANGED outputBlob
           ELSE IF fs1.output # NoBlob
             THEN /\ outputBlob' = fs1.output
                  /\ status' = COMPLETED
                  /\ logs' = addLog(addLog(l1, Info("checkOutput")),
                                    Success("allDone"))
                  /\ run' = r
                  /\ UNCHANGED <<errorMsg, escaped>>
           ELSE /\ Throw("execute", MSG_NO_OUTPUT, EXECUTING_CODE,
                         addLog(l1, Info("checkOutput")))
                /\ run' = [r EXCEPT !.raised = MSG_NO_OUTPUT]
                /\ UNCHANGED outputBlob
  /\ pc' = "idle"
  /\ UNCHANGED <<today, envVars, gestures, stored, inputFile, a1Instruction,
                 generatedCode, remainingUses, pyVars, file, a1, genVars,
                 runs, counted>>

\* ------------------------------------------------------------------------
\* Specifications
\* ------------------------------------------------------------------------
\* Sessions of two runs on one day
Next ==
  \/ Mount
  \/ BootLoaded
  \/ BootInstalled
  \/ BootFailed
  \/ \E f \in Files : UploadRefused(f)
  \/ \E f \in Files : UploadAccepted(f)
  \/ Retry
  \/ ReadThrows
  \/ ReadDone
  \/ \E t \in Responses : RequestOk(t)
  \/ RequestFails(SvcErrors)
  \/ RequestEmpty
  \/ Wake
  \/ \E sr \in ScriptRuns : ScriptDone(sr)

Spec == Init /\ [][Next]_vars

\* Sessions of one run during which the clock can pass midnight
InitClock ==
  /\ today = 1
  /\ storageMode \in StorageModes
  /\ apiKey \in BOOLEAN
  /\ gestures = <<"upload">>
  /\ stored \in InitStored
  /\ Fresh

NextClock ==
  \/ Mount
  \/ BootLoaded
  \/ BootInstalled
  \/ BootFailed
  \/ NextDay
  \/ \E f \in Files : UploadRefused(f)
  \/ \E f \in Files : UploadAccepted(f)
  \/ ReadThrows
  \/ ReadDone
  \/ \E t \in Responses : RequestOk(t)
  \/ RequestFails(SvcErrors)
  \/ RequestEmpty
  \/ Wake
  \/ \E sr \in ScriptRuns : ScriptDone(sr)

SpecClock == InitClock /\ [][NextClock]_vars

\* Sessions that start with one use left and retry twice, with a service
\* that is overloaded or unreachable and scripts that write their output
QuotaFiles == {f \in Files : f.name = "double.xlsx"}

QuotaErrors ==
  {e \in SvcErrors : e.hasMsg /\ (e.msg.json = "ok" \/ "xhr" \in e.msg.toks)
                     /\ ~("429" \in e.msg.toks)}

QuotaScripts ==
  {sr \in ScriptRuns : sr.writes /\ ~sr.raises /\ sr.prints = 0
                       /\ sr.err = Plain({})}

InitQuota ==
  /\ today = 1
  /\ storageMode = "ok"
  /\ apiKey = TRUE
  /\ gestures = <<"upload", "retry", "retry">>
  /\ stored = Record(1, MAX_DAILY_USES - 1)
  /\ Fresh

NextQuota ==
  \/ Mount
  \/ BootLoaded
  \/ BootInstalled
  \/ \E f \in QuotaFiles : UploadRefused(f)
  \/ \E f \in QuotaFiles : UploadAccepted(f)
  \/ Retry
  \/ ReadDone
  \/ \E t \in Responses : RequestOk(t)
  \/ RequestFails(QuotaErrors)
  \/ Wake
  \/ \E sr \in QuotaScripts : ScriptDone(sr)

SpecQuota == InitQuota /\ [][NextQuota]_vars

\* Sessions of one run in which initPyodide has other callers
InitBoot ==
  /\ today = 1
  /\ storageMode = "ok"
  /\ apiKey = TRUE
  /\ gestures = <<"upload">>
  /\ stored = NoRecord
  /\ Fresh

NextBoot ==
  \/ Mount
  \/ InitPyodideCall
  \/ BootLoaded
  \/ BootInstalled
  \/ BootFailed
  \/ \E f \in QuotaFiles : UploadAccepted(f)
  \/ ReadDone
  \/ \E t \in Responses : RequestOk(t)
  \/ RequestFails(QuotaErrors)
  \/ Wake
  \/ \E sr \in QuotaScripts : ScriptDone(sr)

SpecBoot == InitBoot /\ [][NextBoot]_vars

\* Sessions of one run whose service answers with any response text
InitParse == InitBoot

NextParse ==
  \/ Mount
  \/ BootLoaded
  \/ BootInstalled
  \/ \E f \in QuotaFiles : UploadAccepted(f)
  \/ ReadDone
  \/ \E t \in ParseResponses : RequestOk(t)
  \/ \E sr \in QuotaScripts : ScriptDone(sr)

SpecParse == InitParse /\ [][NextParse]_vars

\* Two sessions of the client on one day, the first with one run
InitPeer ==
  /\ today = 1
  /\ storageMode = "ok"
  /\ apiKey = TRUE
  /\ gestures = <<"upload">>
  /\ stored \in {NoRecord, Record(1, 0), Record(1, MAX_DAILY_USES - 1)}
  /\ Fresh

NextPeer ==
  \/ Mount
  \/ BootLoaded
  \/ BootInstalled
  \/ PeerMount
  \/ PeerConsume
  \/ \E f \in QuotaFiles : UploadAccepted(f)
  \/ ReadDone
  \/ \E t \in Responses : RequestOk(t)
  \/ RequestFails(QuotaErrors)
  \/ Wake
  \/ \E sr \in QuotaScripts : ScriptDone(sr)

SpecPeer == InitPeer /\ [][NextPeer]_vars

\* Each external call a run awaits eventually returns or throws: the reader
\* (App.tsx:409), the service request (geminiService:59), the backoff timer
\* (geminiService:100) and the script (pyodideService:226)
ReaderReturns == ReadDone \/ ReadThrows

RequestReturns ==
  \/ \E t \in Responses : RequestOk(t)
  \/ RequestFails(SvcErrors)
  \/ RequestEmpty

ScriptReturns == \E sr \in ScriptRuns : ScriptDone(sr)

CallsReturn ==
  /\ WF_vars(ReaderReturns)
  /\ WF_vars(RequestReturns)
  /\ WF_vars(Wake)
  /\ WF_vars(ScriptReturns)

\* Sessions of one run in which every awaited call returns
SpecLive == InitClock /\ [][NextClock]_vars /\ CallsReturn

TypeOK ==
  /\ status \in AppStatus
  /\ backoffMs \in Nat
  /\ (backoffMs # 0) => pc = "sleep"
  /\ remainingUses \in 0..MAX_DAILY_USES
  /\ pc \in {"init", "loadPyodide", "install", "idle", "reading", "request",
             "sleep", "exec"}
  /\ isProcessing(status) <=> pc \notin {"init", "idle"}

\* ------------------------------------------------------------------------
\* Properties
\* ------------------------------------------------------------------------
\* A cell text that is empty, whitespace only, or the placeholder
BlankText(t) ==
  \/ t = <<>>
  \/ \A i \in 1..Len(t) : t[i] = " "
  \/ t = <<"N", "o", "n", "e">>

IsWarning(e) == e.type = "warning"

\* The entries the log has gained since the current run started
RunLog == SubSeq(logs, run.logsAtStart + 1, Len(logs))

InRun == run.kind \in {"upload", "retry"}

\* C1: a run whose extracted instruction is empty, whitespace only or the
\* placeholder None is Failed as soon as the reader has returned, the
\* generator has not been invoked, and no usage unit was consumed: the
\* persisted record and the remaining uses are those of the run's start.
C1_BlankInstructionFails ==
  (InRun /\ run.read /\ BlankText(run.a1)) =>
    /\ status = ERROR
    /\ pc = "idle"
    /\ run.genCalls = 0
    /\ run.requests = 0
    /\ run.consumes = 0
    /\ stored = run.storedAtStart
    /\ remainingUses = run.remainingAtStart

C1_Witness ==
  /\ run.kind = "upload"
  /\ run.read
  /\ run.a1 = <<"N", "o", "n", "e">>
  /\ status = ERROR

\* C2: in a run that ends in Completed exactly one usage unit is consumed:
\* consume ran once and the persisted count is one more than at the run's
\* start.
C2_CompletedConsumesOne ==
  (InRun /\ status = COMPLETED) =>
    /\ run.consumes = 1
    /\ stored.count = run.storedAtStart.count + 1

\* C3: the generator is never invoked in a run that started with no
\* remaining use.
C3_NoGenerationAtZero ==
  (InRun /\ run.genCalls > 0) => run.remainingAtStart > 0

\* C4: when every call of one generate invocation failed with a retryable
\* error, nine calls were made, and the run is Failed with the overload or
\* the quota message, never the generic one.
C4_ExhaustedIsSpecific ==
  (/\ InRun
   /\ pc = "idle"
   /\ run.failed = maxRetries + 1
   /\ isRetryable(lastError)) =>
    /\ run.requests = maxRetries + 1
    /\ status = ERROR
    /\ errorMsg \in {MSG_OVERLOAD, MSG_QUOTA}

C6_AtMostEightRequests == run.requests <= 8

\* C6 amended: one generate call sends at most 9 requests, the first
\* attempt and at most 8 retries.
C6_AtMostNineRequests == run.requests <= 9

C6_Witness == run.requests = 9 /\ pc = "request"

\* C7: a script that ends without raising and leaves no output file fails
\* the run with the no-output message; a script that raises fails it with
\* the wrapped execution error; the two messages differ and no artifact is
\* stored in either case.
C7_ExecutorFailures ==
  (InRun /\ pc = "idle" /\ run.execCalls = 1) =>
    /\ run.script = "silent" =>
         /\ status = ERROR
         /\ errorMsg = MSG_NO_OUTPUT
         /\ outputBlob = NoBlob
    /\ run.script = "raised" =>
         /\ status = ERROR
         /\ errorMsg.prefix = "EXEC"
         /\ errorMsg # MSG_NO_OUTPUT
         /\ outputBlob = NoBlob

C7_Witness ==
  /\ runs = 2
  /\ pc = "idle"
  /\ run.script = "silent"
  /\ errorMsg = MSG_NO_OUTPUT

\* C8: the record of the current day never counts more units than were
\* consumed on that day: a consume on a new day does not carry over the
\* count of the day before.
C8_NoCarryOver ==
  (stored.present /\ stored.date = today) => stored.count <= counted

\* C9 as stated: a manual retry does not invoke the reader and does not
\* pass through ReadingFile.
C9_RetrySkipsReading ==
  run.kind = "retry" => (run.readCalls = 0 /\ ~run.passedReading)

\* C9 amended: a manual retry runs the whole pipeline again on the stored
\* input file: it sets ReadingFile and invokes the reader once, and the
\* generator is invoked only after the reader has returned.
C9_RetryReadsAgain ==
  run.kind = "retry" =>
    /\ run.readCalls = 1
    /\ run.passedReading
    /\ file = inputFile
    /\ run.genCalls > 0 => run.read

C9_Witness ==
  /\ run.kind = "retry"
  /\ run.read
  /\ run.genCalls = 1

\* C10: no exception leaves the run function, and a run in which a stage
\* threw is Failed with an error message stored and the same message in the
\* error entry that ends the log.
C10_FailuresCaught ==
  /\ ~escaped
  /\ (InRun /\ pc = "idle" /\ run.raised # NoError) =>
       /\ status = ERROR
       /\ errorMsg # NoError
       /\ logs # <<>>
       /\ logs[Len(logs)] = ErrorEntry("error", errorMsg)

C10_Witness ==
  /\ pc = "idle"
  /\ status = ERROR
  /\ run.consumes = 1
  /\ run.genCalls = 0
  /\ run.raised = Plain({})

C13_CountWithinLimit ==
  (InRun /\ run.storedAtStart.count <= MAX_DAILY_USES) =>
    stored.count <= MAX_DAILY_USES

\* C14: the remaining uses are always in 0..limit, and once consumeUsage has
\* run in a run the persisted count is one more than at the run's start and
\* the remaining uses are max(0, limit - count).
C14_RemainingWithinLimit ==
  /\ remainingUses \in 0..MAX_DAILY_USES
  /\ (InRun /\ run.genCalls = 1) =>
       /\ stored.count = run.storedAtStart.count + 1
       /\ remainingUses = Max(0, MAX_DAILY_USES - stored.count)

\* C15: whatever the number of calls of initPyodide, before, during and
\* after the bootstrap, the loader and the installer have run at most once
\* and every caller was handed the runtime of the same bootstrap.
C15_BootstrapOnce ==
  /\ bootstrap.loads <= 1
  /\ bootstrap.installs <= 1
  /\ bootstrap.got \subseteq {1}
  /\ bootstrap.calls >= 1 => bootstrap.loads = 1

C15_Witness ==
  /\ bootstrap.joined >= 1
  /\ bootstrap.reused >= 1
  /\ pyodideInstance
  /\ bootstrap.loads = 1

\* C16: a run is started only in a step taken from a state in which no stage
\* is being processed and no run is suspended, by an upload or by a retry the
\* Failed state offers.
C16_OneRunAtATime ==
  [][runs' # runs =>
       /\ ~isProcessing(status)
       /\ pc = "idle"
       /\ run'.kind = "retry" => status = ERROR]_vars

C16_Witness ==
  /\ runs = 2
  /\ isProcessing(status)
  /\ pc = "request"

C18_StorageFailuresNonFatal ==
  /\ pc = "loadPyodide" => status = BOOTING_PYTHON
  /\ (InRun /\ run.consumes = 1) => run.genCalls = 1

\* C19: when the API key is absent, a run that invokes the generator sends no
\* request and is Failed with the configuration message, which is also the
\* error entry that ends the log; no exception leaves the run function.
C19_MissingKeyFails ==
  (InRun /\ ~apiKey /\ run.genCalls = 1) =>
    /\ run.requests = 0
    /\ pc = "idle"
    /\ status = ERROR
    /\ errorMsg = MSG_NO_API_KEY
    /\ logs[Len(logs)] = ErrorEntry("error", MSG_NO_API_KEY)
    /\ ~escaped

C19_Witness ==
  /\ run.kind = "upload"
  /\ ~apiKey
  /\ run.genCalls = 1
  /\ run.consumes = 1
  /\ errorMsg = MSG_NO_API_KEY

\* What the response parsing is stated to return, on the positions of the
\* fence markers of a text
MinOf(S) == CHOOSE x \in S : \A y \in S : x <= y
MaxOf(S) == CHOOSE x \in S : \A y \in S : x >= y

Opens(t) == {i \in 1..Len(t) : t[i] = FENCE_PY}

Closes(t) ==
  IF Opens(t) = {} THEN {}
  ELSE {j \in (MinOf(Opens(t)) + 1)..Len(t) : t[j] \in {FENCE, FENCE_PY}}

HasBlock(t) == Closes(t) # {}

FirstBlock(t) == SubSeq(t, MinOf(Opens(t)) + 1, MinOf(Closes(t)) - 1)

IsMarker(c) == c \in {FENCE, FENCE_PY}
NotMarker(c) == ~IsMarker(c)

Trimmed(t) ==
  LET solid == {i \in 1..Len(t) : t[i] # " "}
  IN IF solid = {} THEN <<>> ELSE SubSeq(t, MinOf(solid), MaxOf(solid))

\* C20 as stated: the script is the trimmed content of the first fenced
\* python block of the response when there is one, and else the whole
\* response without its fence markers, trimmed.
C20_FirstBlockOrWhole ==
  run.execCalls = 1 =>
    generatedCode = IF HasBlock(run.response)
                      THEN Trimmed(FirstBlock(run.response))
                      ELSE Trimmed(SelectSeq(run.response, NotMarker))

\* C20 amended: the script is the trimmed content of the first fenced python
\* block when that block is not empty; when there is no fenced python block
\* or the first one is empty, it is the whole response without its fence
\* markers, trimmed.
C20_FirstNonEmptyBlockOrWhole ==
  run.execCalls = 1 =>
    generatedCode =
      IF HasBlock(run.response) /\ FirstBlock(run.response) # <<>>
        THEN Trimmed(FirstBlock(run.response))
        ELSE Trimmed(SelectSeq(run.response, NotMarker))

C20_Witness ==
  /\ run.execCalls = 1
  /\ run.response = <<FENCE_PY, " ", "x", FENCE>>
  /\ generatedCode = <<"x">>

RECURSIVE Pow(_, _)
Pow(b, n) == IF n = 0 THEN 1 ELSE b * Pow(b, n - 1)

\* 1.8^n * 1500 ms in ticks, exact for n up to 7
StatedDelay(n) == ((1500 * TicksPerMs) \div Pow(5, n)) * Pow(9, n)

StatedRetryable(e) ==
  \/ e.status \in {"UNAVAILABLE", "RESOURCE_EXHAUSTED"}
  \/ e.code \in {503, 429}
  \/ \E t \in {"503", "429"} : Includes(ErrorText(e), t)
  \/ \E t \in {"overloaded", "unavailable", "resource_exhausted"} :
       IncludesLower(ErrorText(e), t)

\* The retry notices the log has gained in the current run
RunNotices == {i \in 1..Len(RunLog) : RunLog[i].tag = "retryNotice"}

\* C22: once a request of generate has failed with an error that is not
\* retryable, generate has raised: the pipeline is Failed, no backoff is
\* pending, that failure got no retry notice (the notices are those of the
\* earlier failures only) and no request followed it, at any attempt.
C22_NonRetryableStops ==
  (InRun /\ run.genCalls = 1 /\ run.failed >= 1
   /\ ~StatedRetryable(lastError)) =>
    /\ pc = "idle"
    /\ status = ERROR
    /\ backoffMs = 0
    /\ run.requests = run.failed
    /\ Len(run.notices) = run.failed - 1
    /\ Cardinality(RunNotices) = run.failed - 1
    /\ run.execCalls = 0

C22_Witness ==
  /\ InRun
  /\ run.genCalls = 1
  /\ run.failed = 3
  /\ lastError.status = "INVALID_ARGUMENT"
  /\ status = ERROR

\* C23: inside one generate call a request is sent after the first one only
\* from the backoff sleep of the failure before it, whose retry notice, the
\* last entry of the log, carries that failure's 1-based number; a sleep is
\* entered only from a failed request; and at most one request is in flight:
\* the requests sent are the failed ones plus at most one.
C23_RetryOrder ==
  [][/\ (run'.requests = run.requests + 1 /\ run.requests >= 1) =>
          /\ pc = "sleep"
          /\ pc' = "request"
          /\ backoffMs > 0
          /\ backoffMs' = 0
          /\ run.failed = run.requests
          /\ run.notices = [i \in 1..run.requests |-> i]
          /\ logs[Len(logs)] = Warning("retryNotice", run.requests)
     /\ (pc' = "sleep" /\ pc # "sleep") =>
          /\ pc = "request"
          /\ run'.failed = run.failed + 1
          /\ run'.requests = run.requests
          /\ Len(run'.notices) = run'.failed
     /\ (run'.requests - run'.failed) \in {0, 1}
     /\ (pc' = "request") => run'.requests = run'.failed + 1
     /\ (pc' = "sleep") => run'.requests = run'.failed
    ]_vars

C23_Witness ==
  /\ pc = "request"
  /\ run.requests = 3
  /\ run.notices = <<1, 2>>
  /\ backoffMs = 0

\* A quota-exhaustion failure: 429 or RESOURCE_EXHAUSTED in the status, the
\* code or the text of the error
StatedQuota(e) ==
  \/ e.status = "RESOURCE_EXHAUSTED"
  \/ e.code = 429
  \/ Includes(ErrorText(e), "429")
  \/ IncludesLower(ErrorText(e), "resource_exhausted")

\* An overload failure: 503, UNAVAILABLE or overloaded in the status, the
\* code or the text of the error
StatedOverload(e) ==
  \/ e.status = "UNAVAILABLE"
  \/ e.code = 503
  \/ Includes(ErrorText(e), "503")
  \/ IncludesLower(ErrorText(e), "unavailable")
  \/ IncludesLower(ErrorText(e), "overloaded")

\* C24: when generate has raised after failed requests, a quota-exhaustion
\* failure has produced the quota message and an overload failure the
\* overload message, never the generic one, and the two messages differ.
C24_SpecificMessages ==
  (InRun /\ pc = "idle" /\ run.genCalls = 1 /\ run.failed >= 1
   /\ run.execCalls = 0) =>
    /\ (StatedQuota(lastError) /\ ~StatedOverload(lastError)) =>
         (run.raised = MSG_QUOTA /\ errorMsg = MSG_QUOTA)
    /\ (StatedOverload(lastError) /\ ~StatedQuota(lastError)) =>
         (run.raised = MSG_OVERLOAD /\ errorMsg = MSG_OVERLOAD)
    /\ MSG_QUOTA # MSG_OVERLOAD

\* C25: when the service has answered a request of generate with no text,
\* generate has failed with the empty-response error: the pipeline is Failed
\* with that error, nothing was returned to the orchestrator and the
\* executor was not invoked; a script that reached the executor comes from
\* an answer that had text.
C25_EmptyResponseFails ==
  /\ (InRun /\ run.genCalls = 1 /\ run.failed >= 1
      /\ lastError = EmptyResponseError) =>
       /\ pc = "idle"
       /\ status = ERROR
       /\ run.raised = [MSG_EMPTY_RESPONSE EXCEPT !.prefix = "ERR"]
       /\ errorMsg = run.raised
       /\ run.execCalls = 0
       /\ run.requests = run.failed
       /\ backoffMs = 0
  /\ (InRun /\ run.execCalls = 1) => run.response # <<>>

C25_Witness ==
  /\ InRun
  /\ run.failed = 2
  /\ lastError = EmptyResponseError
  /\ errorMsg.tag = MSG_EMPTY_RESPONSE.tag
  /\ status = ERROR

\* C26 (as stated): the reader never aborts, whatever fails inside it: every
\* call of the reader that has ended has returned a result to the
\* orchestrator.
C26_ReaderNeverAborts ==
  (InRun /\ run.readCalls = 1 /\ pc # "reading") => run.read

\* C26 (amended): when opening or parsing the workbook fails inside the
\* reading script, the reader returns an empty instruction, no columns and
\* the error, and the run is Failed as an empty-instruction failure with no
\* generation and no usage consumed; when the reader itself rejects (the
\* runtime is missing, or the call fails outside the script's try block) the
\* run is Failed with that error instead, again with no generation and no
\* usage consumed.
C26_ReaderCatchesWorkbookFailures ==
  /\ (InRun /\ run.read /\ file.corrupt) =>
       /\ ReadResult(file).a1 = NoText
       /\ ReadResult(file).columns = <<>>
       /\ ReadResult(file).error
       /\ run.a1 = NoText
       /\ pc = "idle"
       /\ status = ERROR
       /\ errorMsg = MSG_NO_INSTRUCTION
       /\ run.genCalls = 0
       /\ run.consumes = 0
       /\ stored = run.storedAtStart
       /\ remainingUses = run.remainingAtStart
  /\ (InRun /\ run.readCalls = 1 /\ pc # "reading" /\ ~run.read) =>
       /\ pc = "idle"
       /\ status = ERROR
       /\ errorMsg = run.raised
       /\ errorMsg # MSG_NO_INSTRUCTION
       /\ run.genCalls = 0
       /\ run.consumes = 0
       /\ stored = run.storedAtStart
       /\ remainingUses = run.remainingAtStart

C26_Witness ==
  /\ InRun
  /\ run.read
  /\ file.corrupt
  /\ file.hasA1
  /\ errorMsg = MSG_NO_INSTRUCTION
  /\ runs = 2

\* The executor call of the current run has failed
ExecFailed == InRun /\ run.execCalls = 1 /\ pc = "idle" /\ status = ERROR

\* C27: a script run that ends without completing leaves the pipeline
\* Failed and idle; from then on the stored script, the sandbox and the
\* run's history stay as they are until a new upload or a manual retry
\* starts (or an upload is refused), and the run so started has invoked
\* neither the generator nor the executor yet; the executor is only ever
\* started by an answer to a request of the generator in the same run, with
\* the script extracted from that answer.
C27_ExecutorFailureFatal ==
  [][/\ (pc = "exec" /\ pc' # "exec" /\ status' # COMPLETED) =>
          /\ status' = ERROR
          /\ pc' = "idle"
          /\ outputBlob' = outputBlob
          /\ run'.id = run.id
          /\ run'.requests = run.requests
     /\ (ExecFailed /\ run' = run) =>
          /\ pc' = "idle"
          /\ status' = ERROR
          /\ generatedCode' = generatedCode
          /\ fs' = fs
     /\ (ExecFailed /\ run' # run) =>
          /\ run'.kind \in {"upload", "retry", "refused"}
          /\ (run'.kind # "refused") => (runs' = runs + 1 /\ run'.id = runs')
          /\ run'.genCalls = 0
          /\ run'.requests = 0
          /\ run'.execCalls = 0
          /\ pc' \in {"reading", "idle"}
     /\ (run'.execCalls = 1 /\ run # run' /\ pc' = "exec") =>
          /\ pc = "request"
          /\ run'.id = run.id
          /\ run'.genCalls = 1
          /\ run'.read
          /\ generatedCode' = ExtractCode(run'.response)
    ]_vars

\* A manual retry started after the executor had failed: the script of the
\* failed run is still stored while the new run reads the file again
C27_Witness ==
  /\ run.kind = "retry"
  /\ pc = "reading"
  /\ generatedCode # NoText
  /\ \E i \in 1..run.logsAtStart :
       logs[i].type = "error" /\ logs[i].msg.prefix = "EXEC"

\* C28: while a script runs, the sandbox holds no output file but the one
\* that script writes: the file of an earlier run was removed before the
\* script started (and a sandbox without one started the script all the
\* same); so the artifact of a Completed run was written by that run's
\* script, and a run whose script writes nothing is Failed with the
\* no-output error and stores no artifact, whatever earlier runs wrote.
C28_OutputIsThisRuns ==
  /\ (pc = "exec") => (fs.output = NoBlob /\ run.execCalls = 1)
  /\ (fs.output # NoBlob) => fs.output.run \in 1..runs
  /\ (InRun /\ status = COMPLETED) =>
       /\ run.script = "wrote"
       /\ outputBlob = [run |-> run.id]
       /\ fs.output = outputBlob
  /\ (InRun /\ pc = "idle" /\ run.execCalls = 1 /\ run.script = "silent") =>
       /\ status = ERROR
       /\ errorMsg = MSG_NO_OUTPUT
       /\ outputBlob = NoBlob
       /\ fs.output = NoBlob

\* The second run of a session wrote nothing after the first one had
\* completed with an output file
C28_Witness ==
  /\ runs = 2
  /\ run.script = "silent"
  /\ status = ERROR
  /\ fs.output = NoBlob
  /\ \E i \in 1..run.logsAtStart : logs[i] = Success("allDone")

\* C29: the log is append-only: every step of the application (boot,
\* upload, reading, retry notice, executor output, failure, manual retry,
\* new upload, refused upload) leaves the log as it was or adds entries
\* after the existing ones, which stay in place and unmodified.
C29_LogAppendOnly ==
  [][/\ Len(logs') >= Len(logs)
     /\ SubSeq(logs', 1, Len(logs)) = logs
    ]_vars

\* The second upload of a session has logged its own entries after those of
\* the boot and of the first run
C29_Witness ==
  /\ runs = 2
  /\ run.kind = "upload"
  /\ pc = "idle"
  /\ run.logsAtStart > 4
  /\ Len(logs) > run.logsAtStart + 4
  /\ \E i \in 1..run.logsAtStart : logs[i] = Info("parseStart")
  /\ \E i \in 1..run.logsAtStart : IsWarning(logs[i])

\* The position of a status on the path of a run
StageRank(s) ==
  CASE s = READING_FILE -> 1
    [] s = GENERATING_CODE -> 2
    [] s = EXECUTING_CODE -> 3
    [] s = COMPLETED -> 4
    [] OTHER -> 0

\* C30: the status is one value of AppStatus, and every change of it is a
\* step of the path ReadingFile -> GeneratingCode -> ExecutingCode ->
\* Completed inside one run, a move to Failed, or the start of a new run in
\* ReadingFile: Completed is entered only from ExecutingCode, ExecutingCode
\* only from GeneratingCode, GeneratingCode only from ReadingFile, and
\* ReadingFile only by an upload (from Idle, Completed or Failed) or by a
\* manual retry (from Failed), each starting a new run.
C30_StatusOrder ==
  [][/\ status' \in AppStatus
     /\ status' # ANALYZING_INSTRUCTION
     /\ (status' # status /\ status' = COMPLETED) => status = EXECUTING_CODE
     /\ (status' # status /\ status' = EXECUTING_CODE) =>
          status = GENERATING_CODE
     /\ (status' # status /\ status' = GENERATING_CODE) =>
          status = READING_FILE
     /\ (status' # status /\ status' = READING_FILE) =>
          /\ status \in {IDLE, COMPLETED, ERROR}
          /\ runs' = runs + 1
          /\ run'.kind \in {"upload", "retry"}
          /\ (run'.kind = "retry") => status = ERROR
     /\ (status' # status /\ StageRank(status) \in 1..3) =>
          /\ status' = ERROR \/ StageRank(status') = StageRank(status) + 1
          /\ run'.id = run.id
     /\ (status' # status /\ status \in {COMPLETED, ERROR}) =>
          \/ status' = READING_FILE
          \/ status' = ERROR
     /\ (status' # status /\ status' \in {IDLE, BOOTING_PYTHON}) =>
          (runs = 0 /\ status \in {IDLE, BOOTING_PYTHON})
    ]_vars

\* A run started by a manual retry from Failed has gone through every stage
\* to Completed
C30_Witness ==
  /\ run.kind = "retry"
  /\ status = COMPLETED
  /\ run.passedReading
  /\ run.genCalls = 1
  /\ run.execCalls = 1

\* A run is being processed
Processing == status \in {READING_FILE, GENERATING_CODE, EXECUTING_CODE}

\* C31: when every awaited call returns or throws, a run that has started
\* reaches Completed or Failed: the status does not stay in a processing
\* state forever.
C31_RunsTerminate == Processing ~> (status \in {COMPLETED, ERROR})

\* The retry loop has used all its attempts and the run has ended
C31_Witness ==
  /\ InRun
  /\ run.requests = maxRetries + 1
  /\ run.failed = maxRetries + 1
  /\ status = ERROR
  /\ pc = "idle"

\* C32: while generate is sending requests or sleeping between them, the
\* status is GeneratingCode, the stored error message is empty, the run has
\* logged no error entry, and the log ends with the notice that the
\* instruction is being sent followed by one warning per failed request and
\* nothing else; the status is Failed only when no call is pending.
C32_RetriesTransparent ==
  /\ (InRun /\ pc \in {"request", "sleep"}) =>
       LET k == run.failed
       IN /\ status = GENERATING_CODE
          /\ errorMsg = NoError
          /\ \A i \in 1..Len(RunLog) : RunLog[i].type # "error"
          /\ Len(logs) > k
          /\ logs[Len(logs) - k] = Info("sending")
          /\ \A i \in 1..k : logs[Len(logs) - k + i].type = "warning"
          /\ \A i \in 1..k : logs[Len(logs) - k + i].n = i
  /\ (status = ERROR) => pc \in {"idle", "init"}

C32_Witness ==
  /\ InRun
  /\ pc = "sleep"
  /\ run.failed = 3
  /\ status = GENERATING_CODE
  /\ errorMsg = NoError

\* C33: when the script of the current run has raised after writing the
\* output file, the run is Failed with the wrapped execution error, not the
\* no-output error, and no artifact is stored although the file is in the
\* sandbox.
C33_PartialOutputDropped ==
  (InRun /\ pc = "idle" /\ run.execCalls = 1 /\ run.script = "raised"
   /\ fs.output = [run |-> run.id]) =>
    /\ status = ERROR
    /\ errorMsg.prefix = "EXEC"
    /\ errorMsg = run.raised
    /\ errorMsg # MSG_NO_OUTPUT
    /\ outputBlob = NoBlob

C33_Witness ==
  /\ InRun
  /\ pc = "idle"
  /\ run.script = "raised"
  /\ fs.output = [run |-> run.id]
  /\ status = ERROR
  /\ outputBlob = NoBlob

\* C34: once the bootstrap has failed, every step, the later calls of
\* initPyodide included, leaves the failed promise in place, starts no
\* loader and no installer, and leaves the runtime instance unset; the
\* callers are handed the promise of the one bootstrap that failed.
C34_FailedBootstrapStays ==
  [][(pyodideReadyPromise = "rejected") =>
       /\ pyodideReadyPromise' = "rejected"
       /\ ~pyodideInstance
       /\ ~pyodideInstance'
       /\ bootstrap'.loads = 1
       /\ bootstrap'.loads = bootstrap.loads
       /\ bootstrap'.installs = bootstrap.installs
       /\ bootstrap'.published = 0
       /\ bootstrap'.reused = 0
       /\ bootstrap'.got = {1}
       /\ (bootstrap'.calls # bootstrap.calls) =>
            bootstrap'.afterFailure = bootstrap.afterFailure + 1
    ]_vars

\* Two calls of initPyodide were made after the bootstrap had failed
C34_Witness ==
  /\ pyodideReadyPromise = "rejected"
  /\ bootstrap.afterFailure = 2
  /\ ~pyodideInstance
  /\ status = ERROR

\* C35: a run started while the runtime instance is unset has failed at the
\* reader's entry with the not-initialized error: the pipeline is Failed
\* with that error, nothing was read, no usage unit was consumed and the
\* generator was not invoked; and the executor is never entered without the
\* runtime, so its own entry test is never the one that fails a run.
C35_NoRuntimeFailsFirst ==
  /\ (InRun /\ ~pyodideInstance) =>
       /\ pc = "idle"
       /\ status = ERROR
       /\ errorMsg = MSG_NOT_INIT
       /\ run.raised = MSG_NOT_INIT
       /\ run.readCalls = 1
       /\ ~run.read
       /\ run.consumes = 0
       /\ run.genCalls = 0
       /\ run.requests = 0
       /\ run.execCalls = 0
       /\ stored = run.storedAtStart
       /\ remainingUses = run.remainingAtStart
       /\ fs = EmptyFs
  /\ (InRun /\ run.execCalls = 1) =>
       (pyodideInstance /\ run.raised # MSG_NOT_INIT)

\* An upload after the boot has failed
C35_Witness ==
  /\ InRun
  /\ run.kind = "upload"
  /\ pyodideReadyPromise = "rejected"
  /\ ~pyodideInstance
  /\ errorMsg = MSG_NOT_INIT
  /\ status = ERROR

\* C36: on one calendar day, once consumeUsage has run in a run of a session
\* whose storage works, the persisted record is that of the day, its count
\* is the count loaded at startup plus the consumes made so far, and it
\* equals the limit minus the remaining uses.
C36_CountTracksConsumes ==
  (InRun /\ run.consumes = 1 /\ storageMode = "ok") =>
    /\ stored = Record(today, counted)
    /\ stored.count = MAX_DAILY_USES - remainingUses

\* C37: with two sessions on the same day sharing the persisted record,
\* the record's count is the count of the day's start plus the consumes of
\* both sessions.
C37_NoLostUpdate ==
  (stored.present /\ stored.date = today) => stored.count = counted

====
